---- MODULE Spec2Model ----
(***************************************************************************)
(* A model of the CHIP-8 interpreter: the CPU of src/src/cpu.rs with the   *)
(* Screen (src/src/screen.rs) and the Keypad (src/src/keypad.rs) it owns,  *)
(* and the stand-alone FrameBuffer of src/src/frame_buffer.rs.             *)
(*                                                                         *)
(* A u64 row of pixels is the set of its set bit positions (0 = least      *)
(* significant), so XOR is the symmetric difference.  A panic ends the     *)
(* process: `panic` names it and no action is enabled afterwards; the      *)
(* fields keep what the panicking call had written before it panicked.     *)
(* Rust checks integer overflow in builds with overflow checks (debug) and *)
(* wraps in builds without (release): `overflow_checks` is the build.      *)
(* The 4096 cells of the memory are held as the function from the          *)
(* addresses of the non-zero cells to their bytes: a cell outside its      *)
(* domain holds 0.                                                         *)
(***************************************************************************)
EXTENDS Integers, Sequences, FiniteSets, TLC

VARIABLES
    memory,          \* CPU.memory: [u8; 4096], its non-zero cells
    v,               \* CPU.v: [u8; 16]
    stack,           \* CPU.stack: [usize; 16]
    sp,              \* CPU.sp
    i,               \* CPU.i
    pc,              \* CPU.pc
    delay_timer,     \* CPU.delay_timer
    sound_timer,     \* CPU.sound_timer
    screen,          \* CPU.screen: Screen {pixel_buffer, wrap_x, wrap_y}
    keypad,          \* CPU.keypad: Keypad {keys}
    panic,           \* "" while the process runs, else the panic that ended it
    overflow_checks, \* the build: TRUE = arithmetic overflow panics
    loaded,          \* the driver has called CPU::load
    lastOp,          \* the operation that made the last step
    prev,            \* pc and sp as they were before the last cycle
    frame_buffer,    \* a FrameBuffer {buffer, prev_buffer, wrap_x, wrap_y}
    call             \* the last call of a pixel accessor: arguments and result

cpu_vars == <<memory, v, stack, sp, i, pc, delay_timer, sound_timer, screen, keypad>>

vars == <<memory, v, stack, sp, i, pc, delay_timer, sound_timer, screen,
          keypad, panic, overflow_checks, loaded, lastOp, prev, frame_buffer, call>>

-----------------------------------------------------------------------------
(* Program constants *)

MemSize == 4096
NumRegs == 16
StackSize == 16
OFFSET == 512
WRAP_X == TRUE
WRAP_Y == TRUE
\* usize::MAX. It is only ever stored and compared, never computed with, so
\* the largest integer TLC represents stands for it.
USIZE_MAX == 2147483647

Byte == 0..255
Reg == 0..(NumRegs - 1)

-----------------------------------------------------------------------------
(* Bit arithmetic on bytes *)

Bit(n, b) == (n \div (2 ^ b)) % 2

BitsOf(n) == {b \in 0..7 : Bit(n, b) = 1}

FromBits(S) == LET w(b) == IF b \in S THEN 2 ^ b ELSE 0
               IN  w(0) + w(1) + w(2) + w(3) + w(4) + w(5) + w(6) + w(7)

BitAnd(a, b) == FromBits(BitsOf(a) \cap BitsOf(b))
BitOr(a, b) == FromBits(BitsOf(a) \cup BitsOf(b))
BitXor(a, b) == FromBits((BitsOf(a) \cup BitsOf(b)) \ (BitsOf(a) \cap BitsOf(b)))

\* XOR of two u64 rows held as sets of bit positions
RowXor(r, s) == (r \cup s) \ (r \cap s)

-----------------------------------------------------------------------------
(* Keypad *)

Keypad_new == [keys |-> 0]

\* 1 << k on a u16: k >= 16 overflows the shift
set_pressed_overflows(k) == k >= 16

\* set_pressed that adds the key to the keys already pressed
set_pressed_adding(kp, k) ==
    IF (kp.keys \div (2 ^ (k % 16))) % 2 = 1
    THEN kp
    ELSE [kp EXCEPT !.keys = @ + 2 ^ (k % 16)]

\* set_pressed whose shift pushes the bit out of the u16 when k >= 16
set_pressed_shifting_out(kp, k) == [kp EXCEPT !.keys = IF k >= 16 THEN 0 ELSE 2 ^ k]

set_pressed(kp, k) == [kp EXCEPT !.keys = 2 ^ (k % 16)]

\* self.keys >> k on a u16: k >= 16 overflows the shift
is_pressed_overflows(k) == k >= 16

is_pressed(kp, k) == (kp.keys \div (2 ^ (k % 16))) % 2 = 1

-----------------------------------------------------------------------------
(* Screen *)

Rows == 0..31

Screen_new(wx, wy) == [pixel_buffer |-> [r \in Rows |-> {}], wrap_x |-> wx, wrap_y |-> wy]

Screen_clear(s) == [s EXCEPT !.pixel_buffer = [r \in Rows |-> {}]]

\* byte as u64, shifted by shift_amount
shift_byte(wx, byte, shift_amount) ==
    IF shift_amount >= 0
    THEN {b + shift_amount : b \in BitsOf(byte)}
    ELSE IF wx
         THEN {(b - (-shift_amount)) % 64 : b \in BitsOf(byte)}
         ELSE {b - ((-shift_amount) % 64) : b \in {c \in BitsOf(byte) : c >= (-shift_amount) % 64}}

Screen_draw_byte(s, row, byte) ==
    IF row < 32
    THEN [s EXCEPT !.pixel_buffer[row] = RowXor(@, byte)]
    ELSE IF s.wrap_y
         THEN [s EXCEPT !.pixel_buffer[row % 32] = RowXor(@, byte)]
         ELSE s

RECURSIVE Screen_draw_rows(_, _, _, _, _)
Screen_draw_rows(s, sprite, row, shift_amount, k) ==
    IF k > Len(sprite)
    THEN s
    ELSE Screen_draw_rows(
             Screen_draw_byte(s, row + (k - 1), shift_byte(s.wrap_x, sprite[k], shift_amount)),
             sprite, row, shift_amount, k + 1)

Screen_draw_sprite(s, sprite, row, col) ==
    Screen_draw_rows(s, sprite, row, 63 - col - 7, 1)

\* What a pixel accessor did: the object after it, the panic that ended it
\* ("" when it returned) and the value it returned
Outcome(obj, what, ret) == [obj |-> obj, panic |-> what, ret |-> ret]

\* The bit `1 << col` sets and `>> col & 1` reads, after `let col = 63 - col`:
\* without overflow checks the subtraction wraps and the shift takes the low
\* six bits of its amount
pixel_bit(col) == (63 - col) % 64

Screen_check_bounds(row, col) == row >= 32 \/ col > 64

Screen_set_pixel(s, row, col, status) ==
    IF col > 63 /\ overflow_checks
    THEN Outcome(s, "attempt to subtract with overflow", FALSE)
    ELSE IF row >= 32
         THEN Outcome(s, "index out of bounds", FALSE)
         ELSE IF status
              THEN Outcome([s EXCEPT !.pixel_buffer[row] = @ \cup {pixel_bit(col)}], "", FALSE)
              ELSE Outcome([s EXCEPT !.pixel_buffer[row] = @ \ {pixel_bit(col)}], "", FALSE)

Screen_get_pixel(s, row, col) ==
    IF Screen_check_bounds(row, col)
    THEN Outcome(s, "out of bounds for pixel buffer", FALSE)
    ELSE IF col > 63 /\ overflow_checks
         THEN Outcome(s, "attempt to subtract with overflow", FALSE)
         ELSE Outcome(s, "", pixel_bit(col) \in s.pixel_buffer[row])

-----------------------------------------------------------------------------
(* FrameBuffer *)

FrameBuffer_new(wx, wy) ==
    [buffer |-> [r \in Rows |-> {}], prev_buffer |-> [r \in Rows |-> {}],
     wrap_x |-> wx, wrap_y |-> wy]

\* get_buffer that returns the current rows alone
FrameBuffer_get_buffer_current(f) ==
    Outcome([f EXCEPT !.prev_buffer = f.buffer], "", f.buffer)

\* the rows returned, and the frame buffer after the read
FrameBuffer_get_buffer(f) ==
    Outcome([f EXCEPT !.prev_buffer = f.buffer], "",
            [r \in Rows |-> f.prev_buffer[r] \cup f.buffer[r]])

FrameBuffer_clear(f) == [f EXCEPT !.buffer = [r \in Rows |-> {}]]

\* shift_byte that rotates whatever the wrap_x flag says
FrameBuffer_shift_byte_rotating(wx, byte, shift_amount) ==
    {(b + shift_amount) % 64 : b \in BitsOf(byte)}

FrameBuffer_shift_byte(wx, byte, shift_amount) ==
    IF shift_amount >= 0
    THEN {b + shift_amount : b \in BitsOf(byte)}
    ELSE IF wx
         THEN {(b - (-shift_amount)) % 64 : b \in BitsOf(byte)}
         ELSE {b - ((-shift_amount) % 64) : b \in {c \in BitsOf(byte) : c >= (-shift_amount) % 64}}

\* draw_byte that ORs the byte into the row
FrameBuffer_draw_byte_or(f, row, byte) ==
    IF row < 32 \/ f.wrap_y
    THEN Outcome([f EXCEPT !.buffer[row % 32] = @ \cup byte], "",
                 (byte \cap f.buffer[row % 32]) # {})
    ELSE Outcome(f, "", FALSE)

\* draw_byte that reports a pixel lit instead of a pixel put out
FrameBuffer_draw_byte_lit(f, row, byte) ==
    IF row < 32 \/ f.wrap_y
    THEN LET g == [f EXCEPT !.buffer[row % 32] = RowXor(@, byte)]
         IN  Outcome(g, "", (byte \cap g.buffer[row % 32]) # {})
    ELSE Outcome(f, "", FALSE)

\* draw_byte that wraps a row past the bottom whatever the wrap_y flag says
FrameBuffer_draw_byte_wrapping(f, row, byte) ==
    LET g == [f EXCEPT !.buffer[row % 32] = RowXor(@, byte)]
    IN  Outcome(g, "", (byte \cap g.buffer[row % 32]) # byte)

\* the frame buffer after the byte is drawn, and `byte & self.buffer[row] != byte`
FrameBuffer_draw_byte(f, row, byte) ==
    IF row < 32
    THEN LET g == [f EXCEPT !.buffer[row] = RowXor(@, byte)]
         IN  Outcome(g, "", (byte \cap g.buffer[row]) # byte)
    ELSE IF f.wrap_y
         THEN LET g == [f EXCEPT !.buffer[row % 32] = RowXor(@, byte)]
              IN  Outcome(g, "", (byte \cap g.buffer[row % 32]) # byte)
         ELSE Outcome(f, "", FALSE)

RECURSIVE FrameBuffer_draw_rows(_, _, _, _, _, _)
FrameBuffer_draw_rows(f, change, sprite, row, shift_amount, k) ==
    IF k > Len(sprite)
    THEN Outcome(f, "", change)
    ELSE LET o == FrameBuffer_draw_byte(f, row + (k - 1),
                      FrameBuffer_shift_byte(f.wrap_x, sprite[k], shift_amount))
         IN  FrameBuffer_draw_rows(o.obj, change \/ o.ret, sprite, row, shift_amount, k + 1)

FrameBuffer_draw_sprite(f, sprite, row, col) ==
    FrameBuffer_draw_rows(f, FALSE, sprite, row, 63 - col - 7, 1)

FrameBuffer_check_bounds(row, col) == row >= 32 \/ col > 64

FrameBuffer_set_pixel(f, row, col, status) ==
    IF col > 63 /\ overflow_checks
    THEN Outcome(f, "attempt to subtract with overflow", FALSE)
    ELSE IF row >= 32
         THEN Outcome(f, "index out of bounds", FALSE)
         ELSE IF status
              THEN Outcome([f EXCEPT !.buffer[row] = @ \cup {pixel_bit(col)}], "", FALSE)
              ELSE Outcome([f EXCEPT !.buffer[row] = @ \ {pixel_bit(col)}], "", FALSE)

FrameBuffer_get_pixel(f, row, col) ==
    IF FrameBuffer_check_bounds(row, col)
    THEN Outcome(f, "out of bounds for pixel buffer", FALSE)
    ELSE IF col > 63 /\ overflow_checks
         THEN Outcome(f, "attempt to subtract with overflow", FALSE)
         ELSE Outcome(f, "", pixel_bit(col) \in f.buffer[row])

-----------------------------------------------------------------------------
(* CPU: construction *)

font ==
    << 240, 144, 144, 144, 240,
        32,  96,  32,  32, 112,
       240,  16, 240, 128, 240,
       240,  16, 240,  16, 240,
       144, 144, 240,  16,  16,
       240, 128, 240,  16, 240,
       240, 128, 240, 144, 240,
       240,  16,  32,  64,  64,
       240, 144, 240, 144, 240,
       240, 144, 240,  16, 240,
       240, 144, 240, 144, 144,
       224, 144, 224, 144, 224,
       240, 128, 128, 128, 240,
       224, 144, 144, 144, 224,
       240, 128, 240, 128, 240,
       240, 128, 240, 128, 128 >>

\* memory[a], for a < MemSize
mem_get(mem, a) == IF a \in DOMAIN mem THEN mem[a] ELSE 0

\* memory[lo..lo + Len(bytes)].copy_from_slice(bytes), the range inside the memory
mem_copy(mem, lo, bytes) ==
    LET hi == lo + Len(bytes)
        new(a) == IF a >= lo /\ a < hi THEN bytes[a - lo + 1] ELSE mem[a]
        dom == {a \in DOMAIN mem \cup lo..(hi - 1) : new(a) # 0}
    IN  [a \in dom |-> new(a)]

\* memory[a] = b, for a < MemSize
mem_set(mem, a, b) == mem_copy(mem, a, << b >>)

\* load_font with the table copied to 0x50 instead of 0
load_font_at_80(mem) == mem_copy(mem, 80, font)

load_font(mem) == mem_copy(mem, 0, font)

\* The fields of the CPU as one record, the `self` of the opcode handlers
Self == [memory |-> memory, v |-> v, stack |-> stack, sp |-> sp, i |-> i, pc |-> pc,
         delay_timer |-> delay_timer, sound_timer |-> sound_timer,
         screen |-> screen, keypad |-> keypad, panic |-> ""]

CPU_default ==
    [memory |-> load_font(<< >>),
     v |-> [r \in Reg |-> 0],
     stack |-> [s \in 0..(StackSize - 1) |-> USIZE_MAX],
     sp |-> 0,
     i |-> 0,
     pc |-> OFFSET,
     delay_timer |-> 0,
     sound_timer |-> 0,
     screen |-> Screen_new(WRAP_X, WRAP_Y),
     keypad |-> Keypad_new,
     panic |-> ""]

-----------------------------------------------------------------------------
(* CPU: fetch and decode *)

\* What an opcode handler returns: the ProgramCounter enum
PC_Next == [kind |-> "Next", addr |-> 0]
PC_Skip == [kind |-> "Skip", addr |-> 0]
PC_Jump(addr) == [kind |-> "Jump", addr |-> addr]

skip_if(condition) == IF condition THEN PC_Skip ELSE PC_Next

\* A handler that returned, and a handler that panicked part-way
Returned(c, pc_change) == [cpu |-> c, pc_change |-> pc_change]
Panicked(c, what) == [cpu |-> [c EXCEPT !.panic = what], pc_change |-> PC_Next]

\* cycle() can run: the process lives
Running == panic = ""

\* get_instruction indexes memory[pc] and memory[pc + 1]
fetch_in_bounds == pc + 1 < MemSize

get_instruction == mem_get(memory, pc) * 256 + mem_get(memory, pc + 1)

nibble1(w) == (w \div 4096) % 16
nibble2(w) == (w \div 256) % 16
nibble3(w) == (w \div 16) % 16
nibble4(w) == w % 16
kk_of(w) == w % 256
nnn_of(w) == w % 4096

\* The match of execute_instruction: the arm an instruction word selects
Decode(w) ==
    LET a == nibble1(w)
        b == nibble2(w)
        c == nibble3(w)
        d == nibble4(w)
    IN  CASE a = 0 /\ b = 0 /\ c = 14 /\ d = 0 -> "00e0"
          [] a = 0 /\ b = 0 /\ c = 14 /\ d = 14 -> "00ee"
          [] a = 1 -> "1nnn"
          [] a = 2 -> "2nnn"
          [] a = 3 -> "3xkk"
          [] a = 4 -> "4xkk"
          [] a = 5 /\ d = 0 -> "5xy0"
          [] a = 6 -> "6xkk"
          [] a = 7 -> "7xkk"
          [] a = 8 /\ d = 0 -> "8xy0"
          [] a = 8 /\ d = 1 -> "8xy1"
          [] a = 8 /\ d = 2 -> "8xy2"
          [] a = 8 /\ d = 3 -> "8xy3"
          [] a = 8 /\ d = 4 -> "8xy4"
          [] a = 8 /\ d = 5 -> "8xy5"
          [] a = 8 /\ d = 6 -> "8xy6"
          [] a = 8 /\ d = 7 -> "8xy7"
          [] a = 8 /\ d = 14 -> "8xye"
          [] a = 9 /\ d = 0 -> "9xy0"
          [] a = 10 -> "annn"
          [] a = 11 -> "bnnn"
          [] a = 12 -> "cxkk"
          [] a = 13 -> "dxyn"
          [] a = 14 /\ c = 9 /\ d = 14 -> "ex9e"
          [] a = 14 /\ c = 10 /\ d = 1 -> "exa1"
          [] a = 15 /\ c = 0 /\ d = 7 -> "fx07"
          [] a = 15 /\ c = 0 /\ d = 10 -> "fx0a"
          [] a = 15 /\ c = 1 /\ d = 5 -> "fx15"
          [] a = 15 /\ c = 1 /\ d = 8 -> "fx18"
          [] a = 15 /\ c = 1 /\ d = 14 -> "fx1e"
          [] a = 15 /\ c = 2 /\ d = 9 -> "fx29"
          [] a = 15 /\ c = 3 /\ d = 3 -> "fx33"
          [] a = 15 /\ c = 5 /\ d = 5 -> "fx55"
          [] a = 15 /\ c = 6 /\ d = 5 -> "fx65"
          [] OTHER -> "invalid"

\* The instruction cycle() is about to execute selects arm `op`
Dispatch(op) == Running /\ fetch_in_bounds /\ Decode(get_instruction) = op

-----------------------------------------------------------------------------
(* CPU: the opcode handlers.  c is the CPU (`self`) *)

\* opcode_00e0 that leaves the screen as it is
opcode_00e0_keeping(c) == Returned(c, PC_Next)

opcode_00e0(c) == Returned([c EXCEPT !.screen = Screen_clear(@)], PC_Next)

opcode_00ee(c) ==
    IF c.sp = 0
    THEN IF overflow_checks
         THEN Panicked(c, "attempt to subtract with overflow")
         ELSE Panicked([c EXCEPT !.sp = USIZE_MAX], "index out of bounds")
    ELSE IF c.sp - 1 >= StackSize
         THEN Panicked([c EXCEPT !.sp = @ - 1], "index out of bounds")
         ELSE Returned([c EXCEPT !.sp = @ - 1], PC_Jump(c.stack[c.sp - 1]))

opcode_1nnn(c, nnn) == Returned(c, PC_Jump(OFFSET + nnn))

\* opcode_2nnn with the stack index wrapped into the stack instead of checked
opcode_2nnn_wrapping(c, nnn) ==
    Returned([c EXCEPT !.stack[c.sp % StackSize] = c.pc, !.sp = @ + 1], PC_Jump(OFFSET + nnn))

opcode_2nnn(c, nnn) ==
    IF c.sp >= StackSize
    THEN Panicked(c, "index out of bounds")
    ELSE Returned([c EXCEPT !.stack[c.sp] = c.pc, !.sp = @ + 1], PC_Jump(OFFSET + nnn))

opcode_3xkk(c, x, kk) == Returned(c, skip_if(c.v[x] = kk))

\* opcode_4xkk that skips on equality
opcode_4xkk_eq(c, x, kk) == Returned(c, skip_if(c.v[x] = kk))

opcode_4xkk(c, x, kk) == Returned(c, skip_if(c.v[x] # kk))

opcode_5xy0(c, x, y) == Returned(c, skip_if(c.v[x] = c.v[y]))

opcode_6xkk(c, x, kk) == Returned([c EXCEPT !.v[x] = kk], PC_Next)

\* opcode_7xkk that reports the carry of the addition in VF
opcode_7xkk_carrying(c, x, kk) ==
    LET c1 == [c EXCEPT !.v[15] = IF c.v[x] + kk > 255 THEN 1 ELSE 0]
    IN  Returned([c1 EXCEPT !.v[x] = (c.v[x] + kk) % 256], PC_Next)

opcode_7xkk(c, x, kk) == Returned([c EXCEPT !.v[x] = (@ + kk) % 256], PC_Next)

opcode_8xy0(c, x, y) == Returned([c EXCEPT !.v[x] = c.v[y]], PC_Next)

opcode_8xy1(c, x, y) == Returned([c EXCEPT !.v[x] = BitOr(@, c.v[y])], PC_Next)

opcode_8xy2(c, x, y) == Returned([c EXCEPT !.v[x] = BitAnd(@, c.v[y])], PC_Next)

opcode_8xy3(c, x, y) == Returned([c EXCEPT !.v[x] = BitXor(@, c.v[y])], PC_Next)

opcode_8xy4(c, x, y) ==
    LET res == c.v[x] + c.v[y]
        c1 == [c EXCEPT !.v[15] = IF res > 255 THEN 1 ELSE 0]
    IN  Returned([c1 EXCEPT !.v[x] = res % 256], PC_Next)

opcode_8xy5(c, x, y) ==
    LET c1 == [c EXCEPT !.v[15] = IF c.v[x] > c.v[y] THEN 1 ELSE 0]
    IN  Returned([c1 EXCEPT !.v[x] = (c1.v[x] - c1.v[y]) % 256], PC_Next)

opcode_8xy6(c, x, y) ==
    LET c1 == [c EXCEPT !.v[15] = c.v[y] % 2]
    IN  Returned([c1 EXCEPT !.v[x] = c1.v[y] \div 2], PC_Next)

opcode_8xy7(c, x, y) ==
    LET c1 == [c EXCEPT !.v[15] = IF c.v[y] > c.v[x] THEN 1 ELSE 0]
    IN  Returned([c1 EXCEPT !.v[x] = (c1.v[y] - c1.v[x]) % 256], PC_Next)

opcode_8xye(c, x, y) ==
    LET c1 == [c EXCEPT !.v[15] = (c.v[y] \div 128) % 2]
    IN  Returned([c1 EXCEPT !.v[x] = (c1.v[y] * 2) % 256], PC_Next)

opcode_9xy0(c, x, y) == Returned(c, skip_if(c.v[x] # c.v[y]))

opcode_annn(c, nnn) == Returned([c EXCEPT !.i = nnn], PC_Next)

\* opcode_bnnn that adds the base offset as opcode_1nnn does
opcode_bnnn_offset(c, nnn) == Returned(c, PC_Jump(OFFSET + c.v[0] + nnn))

opcode_bnnn(c, nnn) == Returned(c, PC_Jump(c.v[0] + nnn))

\* rnd is the byte rng.gen::<u8>() returns
opcode_cxkk(c, x, kk, rnd) == Returned([c EXCEPT !.v[x] = BitAnd(rnd, kk)], PC_Next)

\* &self.memory[self.i..self.i + n] panics when the slice ends past the memory
opcode_dxyn(c, x, y, n) ==
    IF c.i + n > MemSize
    THEN Panicked(c, "index out of bounds")
    ELSE LET sprite == [k \in 1..n |-> mem_get(c.memory, c.i + k - 1)]
         IN  Returned([c EXCEPT !.screen = Screen_draw_sprite(@, sprite, y, x)], PC_Next)

\* opcode_ex9e that asks about the key x, the register index
opcode_ex9e_index(c, x) == Returned(c, skip_if(is_pressed(c.keypad, x)))

opcode_ex9e(c, x) ==
    IF is_pressed_overflows(c.v[x]) /\ overflow_checks
    THEN Panicked(c, "attempt to shift right with overflow")
    ELSE Returned(c, skip_if(is_pressed(c.keypad, c.v[x])))

opcode_exa1(c, x) ==
    IF is_pressed_overflows(c.v[x]) /\ overflow_checks
    THEN Panicked(c, "attempt to shift right with overflow")
    ELSE Returned(c, skip_if(~is_pressed(c.keypad, c.v[x])))

\* opcode_fx07 on a delay timer that counts down when it is read
opcode_fx07_ticking(c, x) ==
    Returned([c EXCEPT !.v[x] = c.delay_timer,
                       !.delay_timer = IF @ > 0 THEN @ - 1 ELSE @], PC_Next)

opcode_fx07(c, x) == Returned([c EXCEPT !.v[x] = c.delay_timer], PC_Next)

\* for k in 0..15: the keys the loop asks about
fx0a_keys == 0..14

\* opcode_fx0a that goes on to the next instruction when no key is pressed
opcode_fx0a_not_waiting(c, x) ==
    LET pressed == {k \in fx0a_keys : is_pressed(c.keypad, k)}
    IN  IF pressed # {}
        THEN LET k == CHOOSE m \in pressed : \A o \in pressed : m <= o
             IN  Returned([c EXCEPT !.v[x] = k], PC_Next)
        ELSE Returned(c, PC_Next)

\* opcode_fx0a that releases the key it has read
opcode_fx0a_releasing(c, x) ==
    LET pressed == {k \in fx0a_keys : is_pressed(c.keypad, k)}
    IN  IF pressed # {}
        THEN Returned([c EXCEPT !.v[x] = CHOOSE k \in pressed : \A j \in pressed : k <= j,
                                !.keypad = Keypad_new], PC_Next)
        ELSE Returned(c, PC_Jump(c.pc))

opcode_fx0a(c, x) ==
    LET pressed == {k \in fx0a_keys : is_pressed(c.keypad, k)}
    IN  IF pressed # {}
        THEN LET k == CHOOSE m \in pressed : \A o \in pressed : m <= o
             IN  Returned([c EXCEPT !.v[x] = k], PC_Next)
        ELSE Returned(c, PC_Jump(c.pc))

opcode_fx15(c, x) == Returned([c EXCEPT !.delay_timer = c.v[x]], PC_Next)

opcode_fx18(c, x) == Returned([c EXCEPT !.sound_timer = c.v[x]], PC_Next)

opcode_fx1e(c, x) == Returned([c EXCEPT !.i = @ + c.v[x]], PC_Next)

opcode_fx29(c, x) ==
    IF c.v[x] > 16
    THEN Panicked(c, "not a valid character")
    ELSE Returned([c EXCEPT !.i = c.v[x] * 5], PC_Next)

\* three writes, each to memory[self.i], each of a digit of v[x >> 8]
opcode_fx33(c, x) ==
    IF c.i >= MemSize
    THEN Panicked(c, "index out of bounds")
    ELSE LET c1 == [c EXCEPT !.memory = mem_set(@, c.i, c.v[x \div 256] \div 100)]
             c2 == [c1 EXCEPT !.memory = mem_set(@, c.i, (c.v[x \div 256] \div 10) % 10)]
             c3 == [c2 EXCEPT !.memory = mem_set(@, c.i, (c.v[x \div 256] % 100) % 10)]
         IN  Returned(c3, PC_Next)

\* opcode_fx55 with the range 0..x, which leaves Vx out
opcode_fx55_exclusive(c, x) ==
    LET done == {r \in 0..(x - 1) : c.i + r < MemSize}
        c1 == [c EXCEPT !.memory = mem_copy(@, c.i, [k \in 1..Cardinality(done) |-> c.v[k - 1]])]
    IN  IF c.i + x >= MemSize
        THEN Panicked(c1, "index out of bounds")
        ELSE Returned(c1, PC_Next)

\* for i in 0..=x: the iterations before the first index past the memory run
opcode_fx55(c, x) ==
    LET done == {r \in 0..x : c.i + r < MemSize}
        c1 == [c EXCEPT !.memory = mem_copy(@, c.i, [k \in 1..Cardinality(done) |-> c.v[k - 1]])]
    IN  IF c.i + x >= MemSize
        THEN Panicked(c1, "index out of bounds")
        ELSE Returned(c1, PC_Next)

opcode_fx65(c, x) ==
    LET c1 == [c EXCEPT !.v = [r \in Reg |->
                   IF r <= x /\ c.i + r < MemSize THEN mem_get(c.memory, c.i + r) ELSE @[r]]]
    IN  IF c.i + x >= MemSize
        THEN Panicked(c1, "index out of bounds")
        ELSE Returned(c1, PC_Next)

-----------------------------------------------------------------------------
(* The programs the driver loads.  A program is a sequence of instruction  *)
(* words; the ROM is their bytes, big-endian.                              *)

rom_of(words) == [k \in 1..(2 * Len(words)) |->
                     IF k % 2 = 1 THEN words[(k + 1) \div 2] \div 256
                                  ELSE words[k \div 2] % 256]

\* at every depth either call deeper (to 0x200) or return
prog_call_ret == << \hC001, \h3000, \h2000, \h00EE >>

\* call a subroutine at 0x206 that returns at once
prog_call_once == << \h6A07, \h2006, \h1FFF, \h00EE >>

\* wait for a key, then ask about the key in V2
prog_wait_key == << \hF20A, \hE29E, \hE2A1, \hF20A >>

\* font lookup of V0 in 0..31, and of V0 = 255
prog_font == << \hC01F, \hF029 >>
prog_font_255 == << \h60FF, \hF029 >>

\* BCD at I = 0x300 of V1 (0..7, 64..71, 128..135, 192..199) with V0 = 123
prog_bcd == << \hA300, \h607B, \hC1C7, \hF133 >>

\* draw the glyph of 0 twice at the same place, with VF = 1 and V0 = 8, V1 = 3
prog_draw == << \h6F01, \h6008, \h6103, \hA000, \hD015, \hD015, \h00E0 >>

\* memory accesses at the top of the 12-bit address range
prog_store_top == << \hAFFF, \hF155 >>
prog_load_top == << \hAFFF, \hF165 >>
prog_draw_top == << \hAFFE, \hD003 >>
prog_bcd_top == << \hAFFF, \h60FF, \hF033, \hF01E, \hF033 >>

\* key queries with a key value above 15
prog_skp_16 == << \h6010, \hE09E >>
prog_sknp_255 == << \h60FF, \hE0A1 >>

\* the arithmetic, logic and timer opcodes
prog_alu == << \h6005, \h61FA, \h7001, \h8010, \h8011, \h8012, \h8013, \h8014,
               \h8015, \h8016, \h8017, \h801E, \h5010, \h3000, \h9010, \h00E0,
               \h4000, \h00E0, \hF015, \hF018, \hF107, \hB224 >>

\* add Vx, Vy with the flag register as destination, and with a carry
prog_add_vf == << \h6F05, \h6103, \h8F14 >>
prog_add_carry == << \h60FF, \h6102, \h8014 >>

\* load Vx, kk then add Vx, kk2
prog_ld_add(x, kk, kk2) == << \h6000 + 256 * x + kk, \h7000 + 256 * x + kk2 >>
prog_ld_adds == { prog_ld_add(x, kk, kk2) : x \in {0, 7, 15}, kk \in {0, 1, 200, 255},
                                            kk2 \in {0, 1, 56, 255} }

\* draw a glyph, then clear the screen
prog_draw_cls == << \hA000, \hD015, \h00E0 >>

\* a compare-and-skip instruction with V0 = 5 and V1 = 5 or 6
prog_skip(word, v1) == << \h6005, \h6100 + v1, word >>
prog_skips == { prog_skip(word, v1) : word \in {\h3005, \h3006, \h4005, \h4006, \h5010, \h9010},
                                      v1 \in {5, 6} }

\* ask about key 3 both ways
prog_skp == << \h6003, \hE09E, \h00E0, \hE0A1 >>

\* shifts with the flag register as source, as destination, and with neither
prog_shr_vf == << \h6F06, \h80F6 >>
prog_shl_vf == << \h6FC1, \h80FE >>
prog_shift_to_vf == << \h6183, \h8F16, \h8F1E >>
prog_shift == << \h6183, \h8016, \h801E, \h8116 >>

\* store V0..V1 at 0x300, overwrite V0, V1 and V3, load V0..V1 back
prog_store_load == << \h6011, \h6122, \h6333, \hA300, \hF155,
                      \h6000, \h6100, \h6344, \hF165 >>

\* draw a glyph, wait for a key, then ask about that key
prog_draw_key == << \hA000, \hD015, \hF20A, \hE29E >>

\* store V0 = 0xAB and V1 at I = 0xFFF, where only V0 has a cell
prog_store_top_ab == << \h60AB, \hAFFF, \hF155 >>

\* one-word programs: words that match no arm, and words that match one
prog_words == { << \h0000 >>, << \h00E1 >>, << \h0123 >>, << \h5011 >>, << \h501F >>,
                << \h8008 >>, << \h800F >>, << \h9011 >>, << \hE000 >>, << \hE19F >>,
                << \hE0A0 >>, << \hF000 >>, << \hF11F >>, << \hF0FF >>, << \hFFFF >>,
                << \h00EE >>, << \h00E0 >>, << \h1FFF >> }

Programs == { prog_call_ret, prog_call_once, prog_wait_key, prog_font, prog_font_255, prog_bcd,
              prog_draw, prog_store_top, prog_load_top, prog_draw_top, prog_bcd_top,
              prog_skp_16, prog_sknp_255, prog_alu, prog_add_vf, prog_add_carry,
              prog_draw_cls, prog_skp, prog_shr_vf, prog_shl_vf, prog_shift_to_vf, prog_shift }
            \cup {prog_store_load, prog_draw_key, prog_store_top_ab}
            \cup prog_words \cup prog_ld_adds \cup prog_skips

\* ROMs given byte by byte: one of odd length, one that fills the memory from
\* OFFSET to its end exactly, and one that is a byte longer than that
rom_odd == << \h12, \h00, \h60 >>
rom_full == [k \in 1..(MemSize - OFFSET) |-> (k % 255) + 1]
rom_too_long == [k \in 1..(MemSize - OFFSET + 1) |-> (k % 255) + 1]

Roms == { rom_of(words) : words \in Programs } \cup { rom_odd, rom_full, rom_too_long }

\* The keys the input collaborator reports
Keys == 0..15

-----------------------------------------------------------------------------
(* The state machine *)

Init ==
    /\ memory = CPU_default.memory
    /\ v = CPU_default.v
    /\ stack = CPU_default.stack
    /\ sp = CPU_default.sp
    /\ i = CPU_default.i
    /\ pc = CPU_default.pc
    /\ delay_timer = CPU_default.delay_timer
    /\ sound_timer = CPU_default.sound_timer
    /\ screen = CPU_default.screen
    /\ keypad = CPU_default.keypad
    /\ panic = ""
    /\ overflow_checks \in BOOLEAN
    /\ loaded = FALSE
    /\ lastOp = "new"
    /\ prev = [pc |-> CPU_default.pc, sp |-> CPU_default.sp]
    /\ frame_buffer = FrameBuffer_new(WRAP_X, WRAP_Y)
    /\ call = [op |-> "none", row |-> 0, col |-> 0, status |-> FALSE, ret |-> FALSE]

\* load that copies the bytes that fit and drops the rest
load_truncating(c, rom) ==
    [c EXCEPT !.memory = mem_copy(@, OFFSET,
                             SubSeq(rom, 1, IF Len(rom) > MemSize - OFFSET
                                            THEN MemSize - OFFSET ELSE Len(rom)))]

\* CPU::load: copy the ROM to memory[OFFSET..OFFSET + rom.len()]
load(c, rom) ==
    IF OFFSET + Len(rom) > MemSize
    THEN [c EXCEPT !.panic = "range end index out of range"]
    ELSE [c EXCEPT !.memory = mem_copy(@, OFFSET, rom)]

Load ==
    /\ Running
    /\ ~loaded
    /\ \E rom \in Roms :
           LET c == load(Self, rom)
           IN  /\ memory' = c.memory
               /\ panic' = c.panic
               /\ call' = [op |-> "CPU::load", row |-> 0, col |-> 0, status |-> FALSE,
                           ret |-> FALSE, rom |-> rom]
    /\ loaded' = TRUE
    /\ lastOp' = "load"
    /\ UNCHANGED <<v, stack, sp, i, pc, delay_timer, sound_timer, screen, keypad,
                   overflow_checks, prev, frame_buffer>>

\* Keypad::set_pressed(k), called by the input collaborator between cycles
SetPressed ==
    /\ Running
    /\ \E k \in Keys :
           IF set_pressed_overflows(k) /\ overflow_checks
           THEN /\ panic' = "attempt to shift left with overflow"
                /\ UNCHANGED keypad
           ELSE /\ keypad' = set_pressed(keypad, k)
                /\ UNCHANGED panic
    /\ lastOp' = "set_pressed"
    /\ UNCHANGED <<memory, v, stack, sp, i, pc, delay_timer, sound_timer, screen,
                   overflow_checks, loaded, prev, frame_buffer, call>>

\* apply_pc_change that takes a jump address as relative to pc
apply_pc_change_relative(p, pc_change) ==
    CASE pc_change.kind = "Next" -> p + 2
      [] pc_change.kind = "Skip" -> p + 4
      [] pc_change.kind = "Jump" -> p + pc_change.addr

\* execute_instruction, lines 144-148: the one place that writes pc
apply_pc_change(p, pc_change) ==
    CASE pc_change.kind = "Next" -> p + 2
      [] pc_change.kind = "Skip" -> p + 4
      [] pc_change.kind = "Jump" -> pc_change.addr

\* A cycle whose instruction selects arm `op` and whose handler gave r
Commit(op, r) ==
    /\ memory' = r.cpu.memory
    /\ v' = r.cpu.v
    /\ stack' = r.cpu.stack
    /\ sp' = r.cpu.sp
    /\ i' = r.cpu.i
    /\ delay_timer' = r.cpu.delay_timer
    /\ sound_timer' = r.cpu.sound_timer
    /\ screen' = r.cpu.screen
    /\ keypad' = r.cpu.keypad
    /\ panic' = r.cpu.panic
    /\ pc' = IF r.cpu.panic # "" THEN pc ELSE apply_pc_change(pc, r.pc_change)
    /\ lastOp' = op
    /\ prev' = [pc |-> pc, sp |-> sp]
    /\ UNCHANGED <<overflow_checks, loaded, frame_buffer, call>>

X == nibble2(get_instruction)
Y == nibble3(get_instruction)
N == nibble4(get_instruction)
KK == kk_of(get_instruction)
NNN == nnn_of(get_instruction)

exec_00e0 == Dispatch("00e0") /\ Commit("00e0", opcode_00e0(Self))
exec_00ee == Dispatch("00ee") /\ Commit("00ee", opcode_00ee(Self))
exec_1nnn == Dispatch("1nnn") /\ Commit("1nnn", opcode_1nnn(Self, NNN))
exec_2nnn == Dispatch("2nnn") /\ Commit("2nnn", opcode_2nnn(Self, NNN))
exec_3xkk == Dispatch("3xkk") /\ Commit("3xkk", opcode_3xkk(Self, X, KK))
exec_4xkk == Dispatch("4xkk") /\ Commit("4xkk", opcode_4xkk(Self, X, KK))
exec_5xy0 == Dispatch("5xy0") /\ Commit("5xy0", opcode_5xy0(Self, X, Y))
exec_6xkk == Dispatch("6xkk") /\ Commit("6xkk", opcode_6xkk(Self, X, KK))
exec_7xkk == Dispatch("7xkk") /\ Commit("7xkk", opcode_7xkk(Self, X, KK))
exec_8xy0 == Dispatch("8xy0") /\ Commit("8xy0", opcode_8xy0(Self, X, Y))
exec_8xy1 == Dispatch("8xy1") /\ Commit("8xy1", opcode_8xy1(Self, X, Y))
exec_8xy2 == Dispatch("8xy2") /\ Commit("8xy2", opcode_8xy2(Self, X, Y))
exec_8xy3 == Dispatch("8xy3") /\ Commit("8xy3", opcode_8xy3(Self, X, Y))
exec_8xy4 == Dispatch("8xy4") /\ Commit("8xy4", opcode_8xy4(Self, X, Y))
exec_8xy5 == Dispatch("8xy5") /\ Commit("8xy5", opcode_8xy5(Self, X, Y))
exec_8xy6 == Dispatch("8xy6") /\ Commit("8xy6", opcode_8xy6(Self, X, Y))
exec_8xy7 == Dispatch("8xy7") /\ Commit("8xy7", opcode_8xy7(Self, X, Y))
exec_8xye == Dispatch("8xye") /\ Commit("8xye", opcode_8xye(Self, X, Y))
exec_9xy0 == Dispatch("9xy0") /\ Commit("9xy0", opcode_9xy0(Self, X, Y))
exec_annn == Dispatch("annn") /\ Commit("annn", opcode_annn(Self, NNN))
exec_bnnn == Dispatch("bnnn") /\ Commit("bnnn", opcode_bnnn(Self, NNN))
exec_cxkk == Dispatch("cxkk") /\ \E rnd \in Byte : Commit("cxkk", opcode_cxkk(Self, X, KK, rnd))
exec_dxyn == Dispatch("dxyn") /\ Commit("dxyn", opcode_dxyn(Self, X, Y, N))
exec_ex9e == Dispatch("ex9e") /\ Commit("ex9e", opcode_ex9e(Self, X))
exec_exa1 == Dispatch("exa1") /\ Commit("exa1", opcode_exa1(Self, X))
exec_fx07 == Dispatch("fx07") /\ Commit("fx07", opcode_fx07(Self, X))
exec_fx0a == Dispatch("fx0a") /\ Commit("fx0a", opcode_fx0a(Self, X))
exec_fx15 == Dispatch("fx15") /\ Commit("fx15", opcode_fx15(Self, X))
exec_fx18 == Dispatch("fx18") /\ Commit("fx18", opcode_fx18(Self, X))
exec_fx1e == Dispatch("fx1e") /\ Commit("fx1e", opcode_fx1e(Self, X))
exec_fx29 == Dispatch("fx29") /\ Commit("fx29", opcode_fx29(Self, X))
exec_fx33 == Dispatch("fx33") /\ Commit("fx33", opcode_fx33(Self, X))
exec_fx55 == Dispatch("fx55") /\ Commit("fx55", opcode_fx55(Self, X))
exec_fx65 == Dispatch("fx65") /\ Commit("fx65", opcode_fx65(Self, X))

\* the `_` arm as a no-op that goes on to the next instruction
exec_invalid_skipping ==
    /\ Dispatch("invalid")
    /\ Commit("invalid", Returned(Self, PC_Next))

\* the `_` arm: panic!("... is not a valid opcode")
exec_invalid ==
    /\ Dispatch("invalid")
    /\ Commit("invalid", Panicked(Self, "not a valid opcode"))

\* get_instruction indexes past the memory
fetch_out_of_bounds ==
    /\ Running
    /\ ~fetch_in_bounds
    /\ panic' = "index out of bounds"
    /\ lastOp' = "fetch"
    /\ prev' = [pc |-> pc, sp |-> sp]
    /\ UNCHANGED <<memory, v, stack, sp, i, pc, delay_timer, sound_timer, screen,
                   keypad, overflow_checks, loaded, frame_buffer, call>>

\* CPU::cycle
Cycle ==
    \/ exec_00e0 \/ exec_00ee \/ exec_1nnn \/ exec_2nnn \/ exec_3xkk \/ exec_4xkk
    \/ exec_5xy0 \/ exec_6xkk \/ exec_7xkk \/ exec_8xy0 \/ exec_8xy1 \/ exec_8xy2
    \/ exec_8xy3 \/ exec_8xy4 \/ exec_8xy5 \/ exec_8xy6 \/ exec_8xy7 \/ exec_8xye
    \/ exec_9xy0 \/ exec_annn \/ exec_bnnn \/ exec_cxkk \/ exec_dxyn \/ exec_ex9e
    \/ exec_exa1 \/ exec_fx07 \/ exec_fx0a \/ exec_fx15 \/ exec_fx18 \/ exec_fx1e
    \/ exec_fx29 \/ exec_fx33 \/ exec_fx55 \/ exec_fx65 \/ exec_invalid
    \/ fetch_out_of_bounds

Next == Load \/ SetPressed \/ Cycle

Spec == Init /\ [][Next]_vars

-----------------------------------------------------------------------------
(* The pixel accessors of a Screen and of a FrameBuffer, called directly   *)
(* (as the tests of cpu_tests.rs, screen.rs and frame_buffer.rs do)        *)

\* rows and columns at and beside the edges of the 32 x 64 grid
PixelRows == {0, 31, 32}
PixelCols == {0, 63, 64}

Screen_SetPixel ==
    /\ Running
    /\ \E row \in PixelRows, col \in PixelCols, status \in BOOLEAN :
           LET o == Screen_set_pixel(screen, row, col, status)
           IN  /\ screen' = o.obj
               /\ panic' = o.panic
               /\ call' = [op |-> "Screen::set_pixel", row |-> row, col |-> col,
                           status |-> status, ret |-> o.ret]
    /\ UNCHANGED <<memory, v, stack, sp, i, pc, delay_timer, sound_timer, keypad,
                   overflow_checks, loaded, lastOp, prev, frame_buffer>>

Screen_GetPixel ==
    /\ Running
    /\ \E row \in PixelRows, col \in PixelCols :
           LET o == Screen_get_pixel(screen, row, col)
           IN  /\ screen' = o.obj
               /\ panic' = o.panic
               /\ call' = [op |-> "Screen::get_pixel", row |-> row, col |-> col,
                           status |-> FALSE, ret |-> o.ret]
    /\ UNCHANGED <<memory, v, stack, sp, i, pc, delay_timer, sound_timer, keypad,
                   overflow_checks, loaded, lastOp, prev, frame_buffer>>

FrameBuffer_SetPixel ==
    /\ Running
    /\ \E row \in PixelRows, col \in PixelCols, status \in BOOLEAN :
           LET o == FrameBuffer_set_pixel(frame_buffer, row, col, status)
           IN  /\ frame_buffer' = o.obj
               /\ panic' = o.panic
               /\ call' = [op |-> "FrameBuffer::set_pixel", row |-> row, col |-> col,
                           status |-> status, ret |-> o.ret]
    /\ UNCHANGED <<cpu_vars, overflow_checks, loaded, lastOp, prev>>

FrameBuffer_GetPixel ==
    /\ Running
    /\ \E row \in PixelRows, col \in PixelCols :
           LET o == FrameBuffer_get_pixel(frame_buffer, row, col)
           IN  /\ frame_buffer' = o.obj
               /\ panic' = o.panic
               /\ call' = [op |-> "FrameBuffer::get_pixel", row |-> row, col |-> col,
                           status |-> FALSE, ret |-> o.ret]
    /\ UNCHANGED <<cpu_vars, overflow_checks, loaded, lastOp, prev>>

NextPixel == Screen_SetPixel \/ Screen_GetPixel \/ FrameBuffer_SetPixel \/ FrameBuffer_GetPixel

SpecPixel == Init /\ [][NextPixel]_vars

-----------------------------------------------------------------------------
(* Sprites drawn on a FrameBuffer of either wrap setting, called directly  *)
(* (as the tests of frame_buffer.rs do)                                    *)

\* the number of draws in a behaviour
MaxDraws == 3

\* one full byte, and three rows with different bytes
FrameSprites == { << 255 >>, << 129, 60, 255 >> }
\* the top row and the bottom row (the second byte of a sprite falls below it)
FrameRows == {0, 31}
\* the left edge, and columns where a byte crosses the right edge
FrameCols == {0, 57, 60, 63}

InitFrame ==
    /\ memory = CPU_default.memory
    /\ v = CPU_default.v
    /\ stack = CPU_default.stack
    /\ sp = CPU_default.sp
    /\ i = CPU_default.i
    /\ pc = CPU_default.pc
    /\ delay_timer = CPU_default.delay_timer
    /\ sound_timer = CPU_default.sound_timer
    /\ screen = CPU_default.screen
    /\ keypad = CPU_default.keypad
    /\ panic = ""
    /\ overflow_checks \in BOOLEAN
    /\ loaded = FALSE
    /\ lastOp = "new"
    /\ prev = [pc |-> CPU_default.pc, sp |-> CPU_default.sp]
    /\ \E wx \in BOOLEAN, wy \in BOOLEAN : frame_buffer = FrameBuffer_new(wx, wy)
    /\ call = [op |-> "none", row |-> 0, col |-> 0, status |-> FALSE, ret |-> FALSE,
               sprite |-> << >>, before |-> [r \in Rows |-> {}],
               twice |-> FALSE, before2 |-> [r \in Rows |-> {}], n |-> 0]

\* FrameBuffer::draw_sprite(sprite, row, col).  The call record keeps the
\* arguments, the value returned, the rows before the draw, whether the
\* draw before it had the same arguments, the rows before that one, and
\* the number of draws so far
FrameBuffer_DrawSprite ==
    /\ Running
    /\ call.n < MaxDraws
    /\ \E sprite \in FrameSprites, row \in FrameRows, col \in FrameCols :
           LET o == FrameBuffer_draw_sprite(frame_buffer, sprite, row, col)
           IN  /\ frame_buffer' = o.obj
               /\ panic' = o.panic
               /\ call' = [op |-> "FrameBuffer::draw_sprite", row |-> row, col |-> col,
                           status |-> FALSE, ret |-> o.ret,
                           sprite |-> sprite, before |-> frame_buffer.buffer,
                           twice |-> /\ call.op = "FrameBuffer::draw_sprite"
                                     /\ call.sprite = sprite
                                     /\ call.row = row
                                     /\ call.col = col,
                           before2 |-> call.before, n |-> call.n + 1]
    /\ UNCHANGED <<cpu_vars, overflow_checks, loaded, lastOp, prev>>

NextFrame == FrameBuffer_DrawSprite

SpecFrame == InitFrame /\ [][NextFrame]_vars

-----------------------------------------------------------------------------
(* The frame buffer drawn on at every kind of column an 8-bit register can *)
(* hold: on the display, across its right edge, and past it                *)

MaxClipDraws == 2

\* columns on the display, across the right edge, and past it: 120 and 184
\* make the shift amount -64 and -128, 127 and 255 make it -71 and -199
ClipCols == {0, 57, 63, 64, 100, 119, 120, 127, 184, 255}

FrameClip_DrawSprite ==
    /\ Running
    /\ call.n < MaxClipDraws
    /\ \E sprite \in FrameSprites, row \in FrameRows, col \in ClipCols :
           LET o == FrameBuffer_draw_sprite(frame_buffer, sprite, row, col)
           IN  /\ frame_buffer' = o.obj
               /\ panic' = o.panic
               /\ call' = [op |-> "FrameBuffer::draw_sprite", row |-> row, col |-> col,
                           status |-> FALSE, ret |-> o.ret,
                           sprite |-> sprite, before |-> frame_buffer.buffer,
                           twice |-> /\ call.op = "FrameBuffer::draw_sprite"
                                     /\ call.sprite = sprite
                                     /\ call.row = row
                                     /\ call.col = col,
                           before2 |-> call.before, n |-> call.n + 1]
    /\ UNCHANGED <<cpu_vars, overflow_checks, loaded, lastOp, prev>>

NextClip == FrameClip_DrawSprite

SpecClip == InitFrame /\ [][NextClip]_vars

-----------------------------------------------------------------------------
(* A FrameBuffer drawn on, cleared and read, called directly               *)

\* the number of calls in a behaviour
MaxFrameOps == 4

\* a byte across the right edge of the top row, a sprite across the bottom edge
ReadDraws == { [sprite |-> << 255 >>, row |-> 0, col |-> 60],
               [sprite |-> << 129, 60, 255 >>, row |-> 31, col |-> 0] }
\* two corners lit, and a pixel of the first sprite put out
ReadPixels == { [row |-> 0, col |-> 0, status |-> TRUE],
                [row |-> 31, col |-> 63, status |-> TRUE],
                [row |-> 0, col |-> 60, status |-> FALSE] }

\* the rows of the frame buffer at the last get_buffer (all dark before the first)
LastRead == IF "at_read" \in DOMAIN call THEN call.at_read ELSE [r \in Rows |-> {}]

\* The call record of these actions keeps the rows and the retained
\* snapshot as they were before the call, the rows at the last read before
\* the call (prev_read) and up to now (at_read), and the number of calls
FrameRead_GetBuffer ==
    /\ Running
    /\ call.n < MaxFrameOps
    /\ LET o == FrameBuffer_get_buffer(frame_buffer)
       IN  /\ frame_buffer' = o.obj
           /\ panic' = o.panic
           /\ call' = [op |-> "FrameBuffer::get_buffer", rows |-> o.ret,
                       before |-> frame_buffer.buffer, snapshot |-> frame_buffer.prev_buffer,
                       prev_read |-> LastRead, at_read |-> frame_buffer.buffer,
                       n |-> call.n + 1]
    /\ UNCHANGED <<cpu_vars, overflow_checks, loaded, lastOp, prev>>

FrameRead_DrawSprite ==
    /\ Running
    /\ call.n < MaxFrameOps
    /\ \E d \in ReadDraws :
           LET o == FrameBuffer_draw_sprite(frame_buffer, d.sprite, d.row, d.col)
           IN  /\ frame_buffer' = o.obj
               /\ panic' = o.panic
               /\ call' = [op |-> "FrameBuffer::draw_sprite", ret |-> o.ret,
                           before |-> frame_buffer.buffer,
                           snapshot |-> frame_buffer.prev_buffer,
                           prev_read |-> LastRead, at_read |-> LastRead, n |-> call.n + 1]
    /\ UNCHANGED <<cpu_vars, overflow_checks, loaded, lastOp, prev>>

FrameRead_Clear ==
    /\ Running
    /\ call.n < MaxFrameOps
    /\ frame_buffer' = FrameBuffer_clear(frame_buffer)
    /\ call' = [op |-> "FrameBuffer::clear", before |-> frame_buffer.buffer,
                snapshot |-> frame_buffer.prev_buffer,
                prev_read |-> LastRead, at_read |-> LastRead, n |-> call.n + 1]
    /\ UNCHANGED <<cpu_vars, panic, overflow_checks, loaded, lastOp, prev>>

FrameRead_SetPixel ==
    /\ Running
    /\ call.n < MaxFrameOps
    /\ \E px \in ReadPixels :
           LET o == FrameBuffer_set_pixel(frame_buffer, px.row, px.col, px.status)
           IN  /\ frame_buffer' = o.obj
               /\ panic' = o.panic
               /\ call' = [op |-> "FrameBuffer::set_pixel", before |-> frame_buffer.buffer,
                           snapshot |-> frame_buffer.prev_buffer,
                           prev_read |-> LastRead, at_read |-> LastRead, n |-> call.n + 1]
    /\ UNCHANGED <<cpu_vars, overflow_checks, loaded, lastOp, prev>>

NextFrameRead ==
    FrameRead_GetBuffer \/ FrameRead_DrawSprite \/ FrameRead_Clear \/ FrameRead_SetPixel

SpecFrameRead == InitFrame /\ [][NextFrameRead]_vars

-----------------------------------------------------------------------------
(* A Keypad called directly (as the tests of keypad.rs do)                 *)

\* the keys, and two u8 values that are no key
KeypadArgs == Keys \cup {16, 255}

\* the call record keeps the argument, the value returned and the argument
\* of the last set_pressed that returned (-1 before the first)
InitKeypad ==
    /\ memory = CPU_default.memory
    /\ v = CPU_default.v
    /\ stack = CPU_default.stack
    /\ sp = CPU_default.sp
    /\ i = CPU_default.i
    /\ pc = CPU_default.pc
    /\ delay_timer = CPU_default.delay_timer
    /\ sound_timer = CPU_default.sound_timer
    /\ screen = CPU_default.screen
    /\ keypad = Keypad_new
    /\ panic = ""
    /\ overflow_checks \in BOOLEAN
    /\ loaded = FALSE
    /\ lastOp = "new"
    /\ prev = [pc |-> CPU_default.pc, sp |-> CPU_default.sp]
    /\ frame_buffer = FrameBuffer_new(WRAP_X, WRAP_Y)
    /\ call = [op |-> "none", k |-> 0, ret |-> FALSE, set |-> -1]

Keypad_SetPressed ==
    /\ Running
    /\ \E k \in KeypadArgs :
           IF set_pressed_overflows(k) /\ overflow_checks
           THEN /\ panic' = "attempt to shift left with overflow"
                /\ call' = [op |-> "Keypad::set_pressed", k |-> k, ret |-> FALSE,
                            set |-> call.set]
                /\ UNCHANGED keypad
           ELSE /\ keypad' = set_pressed(keypad, k)
                /\ call' = [op |-> "Keypad::set_pressed", k |-> k, ret |-> FALSE, set |-> k]
                /\ UNCHANGED panic
    /\ UNCHANGED <<memory, v, stack, sp, i, pc, delay_timer, sound_timer, screen,
                   overflow_checks, loaded, lastOp, prev, frame_buffer>>

Keypad_IsPressed ==
    /\ Running
    /\ \E k \in KeypadArgs :
           IF is_pressed_overflows(k) /\ overflow_checks
           THEN /\ panic' = "attempt to shift right with overflow"
                /\ call' = [op |-> "Keypad::is_pressed", k |-> k, ret |-> FALSE,
                            set |-> call.set]
           ELSE /\ call' = [op |-> "Keypad::is_pressed", k |-> k,
                            ret |-> is_pressed(keypad, k), set |-> call.set]
                /\ UNCHANGED panic
    /\ UNCHANGED <<cpu_vars, overflow_checks, loaded, lastOp, prev, frame_buffer>>

NextKeypad == Keypad_SetPressed \/ Keypad_IsPressed

SpecKeypad == InitKeypad /\ [][NextKeypad]_vars

-----------------------------------------------------------------------------
(* Two interpreters side by side: the CPU of the variables, and a second   *)
(* CPU kept as a record, given the same ROM and the same key presses       *)
(* before the same cycles                                                  *)

\* execute_instruction on the CPU c as a function of c and of the byte the
\* random generator would return: decode, run the arm, apply the pc change
execute_instruction(c, instruction, rnd) ==
    LET op == Decode(instruction)
        x == nibble2(instruction)
        y == nibble3(instruction)
        n == nibble4(instruction)
        kk == kk_of(instruction)
        nnn == nnn_of(instruction)
        r ==
                 CASE op = "00e0" -> opcode_00e0(c)
                   [] op = "00ee" -> opcode_00ee(c)
                   [] op = "1nnn" -> opcode_1nnn(c, nnn)
                   [] op = "2nnn" -> opcode_2nnn(c, nnn)
                   [] op = "3xkk" -> opcode_3xkk(c, x, kk)
                   [] op = "4xkk" -> opcode_4xkk(c, x, kk)
                   [] op = "5xy0" -> opcode_5xy0(c, x, y)
                   [] op = "6xkk" -> opcode_6xkk(c, x, kk)
                   [] op = "7xkk" -> opcode_7xkk(c, x, kk)
                   [] op = "8xy0" -> opcode_8xy0(c, x, y)
                   [] op = "8xy1" -> opcode_8xy1(c, x, y)
                   [] op = "8xy2" -> opcode_8xy2(c, x, y)
                   [] op = "8xy3" -> opcode_8xy3(c, x, y)
                   [] op = "8xy4" -> opcode_8xy4(c, x, y)
                   [] op = "8xy5" -> opcode_8xy5(c, x, y)
                   [] op = "8xy6" -> opcode_8xy6(c, x, y)
                   [] op = "8xy7" -> opcode_8xy7(c, x, y)
                   [] op = "8xye" -> opcode_8xye(c, x, y)
                   [] op = "9xy0" -> opcode_9xy0(c, x, y)
                   [] op = "annn" -> opcode_annn(c, nnn)
                   [] op = "bnnn" -> opcode_bnnn(c, nnn)
                   [] op = "cxkk" -> opcode_cxkk(c, x, kk, rnd)
                   [] op = "dxyn" -> opcode_dxyn(c, x, y, n)
                   [] op = "ex9e" -> opcode_ex9e(c, x)
                   [] op = "exa1" -> opcode_exa1(c, x)
                   [] op = "fx07" -> opcode_fx07(c, x)
                   [] op = "fx0a" -> opcode_fx0a(c, x)
                   [] op = "fx15" -> opcode_fx15(c, x)
                   [] op = "fx18" -> opcode_fx18(c, x)
                   [] op = "fx1e" -> opcode_fx1e(c, x)
                   [] op = "fx29" -> opcode_fx29(c, x)
                   [] op = "fx33" -> opcode_fx33(c, x)
                   [] op = "fx55" -> opcode_fx55(c, x)
                   [] op = "fx65" -> opcode_fx65(c, x)
                   [] OTHER -> Panicked(c, "not a valid opcode")
    IN  IF r.cpu.panic # ""
        THEN r.cpu
        ELSE [r.cpu EXCEPT !.pc = apply_pc_change(c.pc, r.pc_change)]

\* cycle that also counts the delay timer down when its clock input is odd
cycle_clocked(c, rnd) ==
    IF c.pc + 1 >= MemSize
    THEN [c EXCEPT !.panic = "index out of bounds"]
    ELSE LET d == execute_instruction(c, mem_get(c.memory, c.pc) * 256
                                             + mem_get(c.memory, c.pc + 1), rnd)
         IN  [d EXCEPT !.delay_timer = IF @ > 0 /\ rnd % 2 = 1 THEN @ - 1 ELSE @]

\* CPU::cycle on the CPU c
cycle(c, rnd) ==
    IF c.pc + 1 >= MemSize
    THEN [c EXCEPT !.panic = "index out of bounds"]
    ELSE execute_instruction(c, mem_get(c.memory, c.pc) * 256
                                    + mem_get(c.memory, c.pc + 1), rnd)

\* the programs, keys and random bytes given to the two interpreters
TwinPrograms == { prog_alu, prog_wait_key, prog_draw, prog_call_once, prog_font, prog_skp,
                  prog_bcd_top }
TwinKeys == {0, 3, 15}
TwinRnd == {0, 16, 255}

\* the first interpreter as a record, to compare with the second
Me == [Self EXCEPT !.panic = panic]

\* the first interpreter becomes the CPU c
Become(c) ==
    /\ memory' = c.memory
    /\ v' = c.v
    /\ stack' = c.stack
    /\ sp' = c.sp
    /\ i' = c.i
    /\ pc' = c.pc
    /\ delay_timer' = c.delay_timer
    /\ sound_timer' = c.sound_timer
    /\ screen' = c.screen
    /\ keypad' = c.keypad
    /\ panic' = c.panic

\* call.cpu is the second interpreter, call.random says whether one of the
\* two has executed the random instruction
InitTwin ==
    /\ memory = CPU_default.memory
    /\ v = CPU_default.v
    /\ stack = CPU_default.stack
    /\ sp = CPU_default.sp
    /\ i = CPU_default.i
    /\ pc = CPU_default.pc
    /\ delay_timer = CPU_default.delay_timer
    /\ sound_timer = CPU_default.sound_timer
    /\ screen = CPU_default.screen
    /\ keypad = CPU_default.keypad
    /\ panic = ""
    /\ overflow_checks \in BOOLEAN
    /\ loaded = FALSE
    /\ lastOp = "new"
    /\ prev = [pc |-> CPU_default.pc, sp |-> CPU_default.sp]
    /\ frame_buffer = FrameBuffer_new(WRAP_X, WRAP_Y)
    /\ call = [op |-> "twin", cpu |-> CPU_default, random |-> FALSE]

\* the same ROM is loaded into both interpreters
Twin_Load ==
    /\ Running
    /\ call.cpu.panic = ""
    /\ ~loaded
    /\ \E words \in TwinPrograms :
           /\ Become(load(Me, rom_of(words)))
           /\ call' = [call EXCEPT !.cpu = load(@, rom_of(words))]
    /\ loaded' = TRUE
    /\ lastOp' = "load"
    /\ UNCHANGED <<overflow_checks, prev, frame_buffer>>

\* the same key is pressed on both interpreters, before the same cycle
Twin_SetPressed ==
    /\ Running
    /\ call.cpu.panic = ""
    /\ \E k \in TwinKeys :
           /\ Become([Me EXCEPT !.keypad = set_pressed(@, k)])
           /\ call' = [call EXCEPT !.cpu.keypad = set_pressed(@, k)]
    /\ lastOp' = "set_pressed"
    /\ UNCHANGED <<overflow_checks, loaded, prev, frame_buffer>>

\* both interpreters run one cycle, each with its own random generator
Twin_Cycle ==
    /\ Running
    /\ call.cpu.panic = ""
    /\ \E rnd \in TwinRnd, rnd2 \in TwinRnd :
           /\ Become(cycle(Me, rnd))
           /\ call' = [call EXCEPT
                  !.cpu = cycle(@, rnd2),
                  !.random = @ \/ (fetch_in_bounds /\ Decode(get_instruction) = "cxkk")
                               \/ (call.cpu.pc + 1 < MemSize
                                   /\ Decode(mem_get(call.cpu.memory, call.cpu.pc) * 256
                                             + mem_get(call.cpu.memory, call.cpu.pc + 1))
                                      = "cxkk")]
    /\ lastOp' = "cycle"
    /\ prev' = [pc |-> pc, sp |-> sp]
    /\ UNCHANGED <<overflow_checks, loaded, frame_buffer>>

NextTwin == Twin_Load \/ Twin_SetPressed \/ Twin_Cycle

SpecTwin == InitTwin /\ [][NextTwin]_vars

-----------------------------------------------------------------------------
(* The interpreter running programs of nested calls, with a record of the  *)
(* calls whose returns are awaited                                         *)

\* two nested calls and a return; sixteen nested calls and a return
prog_calls_2 == << \h2002, \h2004, \h00EE >>
prog_calls_16 == [k \in 1..17 |-> IF k <= 16 THEN \h2000 + 2 * k ELSE \h00EE]

StackPrograms == { prog_calls_2, prog_calls_16, prog_call_once, prog_call_ret }
StackRnd == {0, 1}

RECURSIVE Reverse(_)
Reverse(seq) == IF seq = << >> THEN << >> ELSE Append(Reverse(Tail(seq)), Head(seq))

\* call.run is the PCs of the calls executed since the last return, call.base
\* the stack pointer before the first of them, and call.expect what the
\* returns still awaited for a run of calls have to pop, next one first
InitStack ==
    /\ memory = CPU_default.memory
    /\ v = CPU_default.v
    /\ stack = CPU_default.stack
    /\ sp = CPU_default.sp
    /\ i = CPU_default.i
    /\ pc = CPU_default.pc
    /\ delay_timer = CPU_default.delay_timer
    /\ sound_timer = CPU_default.sound_timer
    /\ screen = CPU_default.screen
    /\ keypad = CPU_default.keypad
    /\ panic = ""
    /\ overflow_checks \in BOOLEAN
    /\ loaded = FALSE
    /\ lastOp = "new"
    /\ prev = [pc |-> CPU_default.pc, sp |-> CPU_default.sp]
    /\ frame_buffer = FrameBuffer_new(WRAP_X, WRAP_Y)
    /\ call = [op |-> "stack", run |-> << >>, expect |-> << >>, base |-> 0]

Stack_Load ==
    /\ Running
    /\ ~loaded
    /\ \E words \in StackPrograms : Become(load(Me, rom_of(words)))
    /\ loaded' = TRUE
    /\ lastOp' = "load"
    /\ UNCHANGED <<overflow_checks, prev, frame_buffer, call>>

\* what the returns awaited have to pop: those of the run under way, last
\* call first, when no return of an earlier run is awaited
Expect == IF call.expect # << >> THEN call.expect ELSE Reverse(call.run)

Stack_Cycle ==
    /\ Running
    /\ loaded
    /\ \E rnd \in StackRnd :
           LET op == IF fetch_in_bounds THEN Decode(get_instruction) ELSE "fetch"
               c == cycle(Me, rnd)
           IN  /\ Become(c)
               /\ lastOp' = op
               /\ call' = CASE op = "2nnn" /\ c.panic = "" /\ call.expect = << >>
                                -> [call EXCEPT !.run = Append(@, pc),
                                                !.base = IF call.run = << >> THEN sp ELSE @]
                             [] op = "00ee" /\ c.panic = "" /\ Expect # << >>
                                -> [call EXCEPT !.run = << >>, !.expect = Tail(Expect)]
                             [] OTHER -> call
    /\ prev' = [pc |-> pc, sp |-> sp]
    /\ UNCHANGED <<overflow_checks, loaded, frame_buffer>>

NextStack == Stack_Load \/ Stack_Cycle

SpecStack == InitStack /\ [][NextStack]_vars

-----------------------------------------------------------------------------
(* The claims *)

\* the instruction word at address a
InstrAt(a) == mem_get(memory, a) * 256 + mem_get(memory, a + 1)

\* the arms of execute_instruction that run a handler
Handlers == {"00e0", "00ee", "1nnn", "2nnn", "3xkk", "4xkk", "5xy0", "6xkk", "7xkk",
             "8xy0", "8xy1", "8xy2", "8xy3", "8xy4", "8xy5", "8xy6", "8xy7", "8xye",
             "9xy0", "annn", "bnnn", "cxkk", "dxyn", "ex9e", "exa1", "fx07", "fx0a",
             "fx15", "fx18", "fx1e", "fx29", "fx33", "fx55", "fx65"}

\* C1: executing call nnn at PC = p (any nnn, any stack depth below 16) and
\* then return leaves PC = p + 2, the instruction after the call, and the
\* stack pointer at its value before the call.
C1_CallReturnRoundTrip ==
    [][(lastOp = "2nnn" /\ panic = "" /\ lastOp' = "00ee" /\ panic' = "")
          => (pc' = prev.pc + 2 /\ sp' = prev.sp)]_vars

\* C2: when the wait-for-key instruction is at PC and key k is pressed, for
\* every k in 0..15, the cycle advances PC by 2 and sets Vx = k.  As an
\* invariant: after a cycle on the wait-for-key instruction with key k
\* pressed (a cycle leaves the keypad as it was), PC is 2 past the
\* instruction and its register x holds k.
C2_KeyPressedAdvances ==
    \A k \in Keys :
        (lastOp = "fx0a" /\ panic = "" /\ is_pressed(keypad, k))
            => (pc = prev.pc + 2 /\ v[nibble2(InstrAt(prev.pc))] = k)

\* C3: while no key is pressed, a cycle on the wait-for-key instruction leaves
\* PC unchanged, so the same instruction is dispatched again, and leaves the
\* registers, memory, I, the stack, the timers and the display unchanged;
\* hence so does any number of such cycles.
C3_NoKeySpin ==
    [][(Dispatch("fx0a") /\ keypad.keys = 0 /\ lastOp' = "fx0a")
          => (/\ panic' = ""
              /\ UNCHANGED <<pc, v, memory, i, stack, sp, delay_timer, sound_timer, screen>>
              /\ InstrAt(pc)' = InstrAt(pc))]_vars

C3_Witness ==
    /\ lastOp = "fx0a" /\ panic = "" /\ keypad.keys = 0
    /\ Dispatch("fx0a") /\ pc = prev.pc

Documented(w) ==
    \/ w \in {\h00E0, \h00EE}
    \/ w \div 4096 \in {1, 2, 3, 4, 6, 7, 10, 11, 12, 13}
    \/ w \div 4096 \in {5, 9} /\ w % 16 = 0
    \/ w \div 4096 = 8 /\ w % 16 \in (0..7) \cup {14}
    \/ w \div 4096 = 14 /\ w % 256 \in {\h9E, \hA1}
    \/ w \div 4096 = 15 /\ w % 256 \in {\h07, \h0A, \h15, \h18, \h1E, \h29, \h33, \h55, \h65}

\* C5: every instruction word that matches none of the documented opcode
\* patterns selects the invalid-opcode arm (all 65536 words), and a cycle on
\* such a word ends in the invalid-opcode panic with the CPU as it was: it
\* is neither executed as another opcode nor skipped.
C5_InvalidOpcodeFatal ==
    /\ [](lastOp = "new" => \A w \in 0..65535 : ~Documented(w) => Decode(w) = "invalid")
    /\ [][(Running /\ fetch_in_bounds /\ ~Documented(get_instruction)
             /\ lastOp' \notin {"load", "set_pressed"})
             => (/\ lastOp' = "invalid"
                 /\ panic' = "not a valid opcode"
                 /\ UNCHANGED cpu_vars)]_vars

C5_Witness ==
    /\ lastOp = "invalid" /\ panic = "not a valid opcode"
    /\ InstrAt(pc) = \h8008

\* C6: the font lookup ends in the invalid-character panic for every Vx in
\* 16..255 and succeeds only for Vx in 0..15.
C6_FontLookupRange ==
    [][(Dispatch("fx29") /\ lastOp' = "fx29")
          => IF v[X] <= 15 THEN panic' = "" ELSE panic' = "not a valid character"]_vars

\* C7: get_pixel and set_pixel with a row outside 0..31 or a column outside
\* 0..63 panic and neither read nor modify a pixel.
C7_PixelBoundsFatal ==
    [][(call'.row \notin 0..31 \/ call'.col \notin 0..63)
          => (panic' # "" /\ screen' = screen /\ frame_buffer' = frame_buffer)]_vars

\* C8: apart from an invalid opcode, a font lookup with Vx > 15 and a stack
\* overflow or underflow, every opcode completes without a panic for all
\* register values and all 12-bit values of I and nnn.
C8_OpcodesTotal ==
    [][(/\ lastOp' \in Handlers
        /\ i <= \hFFF
        /\ ~(lastOp' = "fx29" /\ v[X] > 15)
        /\ ~(lastOp' = "2nnn" /\ sp >= StackSize)
        /\ ~(lastOp' = "00ee" /\ sp = 0))
          => panic' = ""]_vars

\* C9: store-BCD Vx writes the hundreds digit of Vx to memory[I], the tens
\* digit to memory[I+1] and the units digit to memory[I+2] and changes no
\* other memory cell.
C9_StoreBcdDigits ==
    [][(Dispatch("fx33") /\ lastOp' = "fx33" /\ i + 2 < MemSize)
          => (/\ panic' = ""
              /\ mem_get(memory', i) = v[X] \div 100
              /\ mem_get(memory', i + 1) = (v[X] \div 10) % 10
              /\ mem_get(memory', i + 2) = v[X] % 10
              /\ \A a \in (DOMAIN memory \cup DOMAIN memory') \ {i, i + 1, i + 2} :
                     mem_get(memory', a) = mem_get(memory, a))]_vars

\* C10: after the draw instruction VF = 1 if the draw turned at least one lit
\* pixel dark, and VF = 0 otherwise.
C10_DrawSetsCollisionFlag ==
    [][(lastOp' = "dxyn" /\ panic' = "")
          => v'[15] = IF \E r \in Rows : screen.pixel_buffer[r] \ screen'.pixel_buffer[r] # {}
                      THEN 1 ELSE 0]_vars

\* the sprite the draw instruction reads: memory[I..I + n]
SpriteAt(a, n) == [k \in 1..n |-> mem_get(memory, a + k - 1)]

\* C11: the draw instruction draws the n bytes memory[I..I+n] with the top
\* left pixel at column = the value of Vx and row = the value of Vy.
C11_DrawAtRegisterValues ==
    [][(Dispatch("dxyn") /\ lastOp' = "dxyn" /\ i + N <= MemSize)
          => screen' = Screen_draw_sprite(screen, SpriteAt(i, N), v[Y], v[X])]_vars

\* C12: after add Vx,Vy the flag VF is 1 exactly when old Vx + old Vy > 255
\* and 0 otherwise, for every x and y, x = 0xF included, and Vx holds the
\* low 8 bits of the sum (where Vx is not the flag register itself).
C12_AddSetsCarry ==
    [][lastOp' = "8xy4"
          => (/\ v'[15] = IF v[X] + v[Y] > 255 THEN 1 ELSE 0
              /\ X # 15 => v'[X] = (v[X] + v[Y]) % 256)]_vars

\* C13: after sub Vx,Vy the flag VF is 1 exactly when old Vx >= old Vy, and
\* after subn Vx,Vy exactly when old Vy >= old Vx; 0 otherwise.
C13_SubSetsNoBorrow ==
    /\ [][lastOp' = "8xy5" => v'[15] = IF v[X] >= v[Y] THEN 1 ELSE 0]_vars
    /\ [][lastOp' = "8xy7" => v'[15] = IF v[Y] >= v[X] THEN 1 ELSE 0]_vars

\* C14 as stated: load Vx,kk then add Vx,kk2 leaves Vx = (kk + kk2) mod 256
\* and leaves VF and every other register unchanged, for every x (0xF
\* included).
C14_LoadAddKeepsVF ==
    /\ [][lastOp' = "6xkk" => (v' = [v EXCEPT ![X] = KK] /\ v'[15] = v[15])]_vars
    /\ [][(lastOp = "6xkk" /\ lastOp' = "7xkk" /\ X = nibble2(InstrAt(prev.pc)))
             => (/\ v' = [v EXCEPT ![X] = (kk_of(InstrAt(prev.pc)) + KK) % 256]
                 /\ v'[15] = v[15])]_vars

\* C14: load Vx,kk changes Vx only, to kk, and an add Vx,kk2 that follows it
\* changes Vx only, to (kk + kk2) mod 256: every register other than Vx is
\* left as it was before the load, VF too unless x = 0xF.
C14_LoadThenAdd ==
    /\ [][lastOp' = "6xkk" => v' = [v EXCEPT ![X] = KK]]_vars
    /\ [][(lastOp = "6xkk" /\ lastOp' = "7xkk" /\ X = nibble2(InstrAt(prev.pc)))
             => v' = [v EXCEPT ![X] = (kk_of(InstrAt(prev.pc)) + KK) % 256]]_vars

\* an add Vx,kk2 that wrapped, right after the load Vx,kk
C14_Witness ==
    /\ lastOp = "7xkk" /\ panic = ""
    /\ Decode(InstrAt(prev.pc - 2)) = "6xkk"
    /\ nibble2(InstrAt(prev.pc - 2)) = nibble2(InstrAt(prev.pc))
    /\ kk_of(InstrAt(prev.pc - 2)) + kk_of(InstrAt(prev.pc)) > 255
    /\ v[nibble2(InstrAt(prev.pc))] =
           kk_of(InstrAt(prev.pc - 2)) + kk_of(InstrAt(prev.pc)) - 256

\* the pixel of column c in a row of the frame buffer
Lit(row_bits, c) == (63 - c) \in row_bits

\* the columns of a row a sprite byte drawn at column c turns over: bit 7 of
\* the byte is column c, bit 0 is column c + 7, and a column past 63 comes
\* back at the left edge with wrap_x and is dropped without
SpriteCols(wx, byte, c) ==
    LET js == {j \in 0..7 : Bit(byte, 7 - j) = 1}
    IN  IF wx THEN {(c + j) % 64 : j \in js}
        ELSE {c + j : j \in {k \in js : c + k <= 63}}

\* the row of the frame buffer as the bits of a u64 for a set of columns
ColsMask(cols) == {63 - c : c \in cols}

\* a draw has just been done with the arguments of the draw before it
DrawnTwice == call.op = "FrameBuffer::draw_sprite" /\ call.twice

\* C15: drawing the same sprite twice at the same position restores every
\* row of the display to what it was before the first draw, and the second
\* draw reports a collision whenever the first draw lit at least one pixel.
C15_DrawTwiceRestores ==
    DrawnTwice
        => /\ frame_buffer.buffer = call.before2
           /\ (\E r \in Rows : call.before[r] \ call.before2[r] # {}) => call.ret

\* a pair of draws on a display that was not empty, the first of which lit a pixel
C15_Witness ==
    /\ DrawnTwice
    /\ \E r \in Rows : call.before2[r] # {}
    /\ \E r \in Rows : call.before[r] \ call.before2[r] # {}
    /\ call.ret

\* C16: a sprite byte drawn at a column c in 57..63 turns over the columns
\* c..63 its bits fall on, and the bits that fall past column 63 turn over
\* columns 0..(c-57) of the same row with wrap_x and are dropped without
\* (columns 0..(c-57) stay as they were).
C16_HorizontalWrap ==
    (call.op = "FrameBuffer::draw_sprite" /\ call.col \in 57..63)
        => \A k \in 1..Len(call.sprite) :
               LET r == call.row + k - 1
               IN  r < 32 =>
                     \A c \in 0..63 :
                         Lit(frame_buffer.buffer[r], c) =
                             (Lit(call.before[r], c)
                                  # (c \in SpriteCols(frame_buffer.wrap_x, call.sprite[k], call.col)))

\* a 0xFF byte drawn at column 60 on an empty row with wrap_x: columns 60..63
\* and 0..3 are lit
C16_Witness ==
    /\ call.op = "FrameBuffer::draw_sprite" /\ call.col = 60 /\ call.sprite = << 255 >>
    /\ frame_buffer.wrap_x
    /\ call.before[call.row] = {}
    /\ frame_buffer.buffer[call.row] = ColsMask((60..63) \cup (0..3))

\* the sprite bytes of the last draw that fall on a row of the display
DrawnBytes == {k \in 1..Len(call.sprite) : call.row + k - 1 <= 31}
\* and those that fall below row 31
BelowBytes == {k \in 1..Len(call.sprite) : call.row + k - 1 > 31}

\* C17: a sprite byte at vertical offset i from row r with r + i > 31 is
\* XOR-ed into row (r + i) mod 32 with wrap_y; without wrap_y it changes no
\* row and adds nothing to the collision result, which is then that of the
\* bytes drawn on rows r..31.
C17_VerticalWrap ==
    (call.op = "FrameBuffer::draw_sprite")
        => IF frame_buffer.wrap_y
           THEN \A k \in BelowBytes :
                    LET r == (call.row + k - 1) % 32
                    IN  frame_buffer.buffer[r] =
                            RowXor(call.before[r],
                                   ColsMask(SpriteCols(frame_buffer.wrap_x, call.sprite[k], call.col)))
           ELSE /\ \A r \in Rows \ {call.row + k - 1 : k \in DrawnBytes} :
                       frame_buffer.buffer[r] = call.before[r]
                /\ call.ret = \E k \in DrawnBytes :
                       ColsMask(SpriteCols(frame_buffer.wrap_x, call.sprite[k], call.col))
                           \cap call.before[call.row + k - 1] # {}

\* a three-byte sprite drawn at row 31 without wrap_y on a display with lit
\* pixels in row 0, where its second byte would fall with wrap_y
C17_Witness ==
    /\ call.op = "FrameBuffer::draw_sprite" /\ ~frame_buffer.wrap_y
    /\ call.row = 31 /\ Len(call.sprite) = 3
    /\ call.before[0] # {}
    /\ frame_buffer.buffer[0] = call.before[0]

\* C18: load copies a ROM of length L <= 3584 verbatim to memory[0x200 ..
\* 0x200 + L) and leaves every other cell (the font too) as it was; for
\* L > 3584 it panics and writes nothing.
C18_LoadCopiesOrFails ==
    [][lastOp' = "load"
          => LET rom == call'.rom
                 L == Len(rom)
             IN  IF L <= MemSize - OFFSET
                 THEN /\ panic' = ""
                      /\ \A a \in 0..(MemSize - 1) :
                             mem_get(memory', a) =
                                 IF a >= OFFSET /\ a < OFFSET + L
                                 THEN rom[a - OFFSET + 1] ELSE mem_get(memory, a)
                 ELSE panic' # "" /\ memory' = memory]_vars

\* a ROM one byte too long was refused, the memory holds the font and nothing else
C18_Witness ==
    /\ lastOp = "load" /\ panic # ""
    /\ Len(call.rom) = MemSize - OFFSET + 1
    /\ memory = CPU_default.memory

\* the timers after a tick: each one less, a timer at zero stays there
Ticked(t) == IF t > 0 THEN t - 1 ELSE 0

\* C19: the interpreter has a timer-tick operation: in every state in which
\* it runs, one of its operations takes each timer that is not zero down by
\* one and leaves a timer that is zero at zero.
C19_TimerTickExists ==
    Running => ENABLED (/\ Next
                        /\ delay_timer' = Ticked(delay_timer)
                        /\ sound_timer' = Ticked(sound_timer))

\* C20: after set_pressed(k) for k in 0..15, is_pressed(j) is true exactly
\* for j = k (in the keypad as set_pressed left it, and as is_pressed then
\* answers), and in every keypad state at most one of the 16 keys is
\* pressed.
C20_OneKeyPressed ==
    /\ Cardinality({j \in Keys : is_pressed(keypad, j)}) <= 1
    /\ (call.op = "Keypad::set_pressed" /\ panic = "" /\ call.k \in Keys)
           => \A j \in Keys : is_pressed(keypad, j) <=> (j = call.k)
    /\ (call.op = "Keypad::is_pressed" /\ panic = "" /\ call.k \in Keys /\ call.set \in Keys)
           => (call.ret <=> (call.k = call.set))

\* key 15 was set after another key, and is_pressed(15) answered true
C20_Witness ==
    /\ call.op = "Keypad::is_pressed" /\ panic = ""
    /\ call.k = 15 /\ call.set = 15 /\ call.ret
    /\ keypad.keys = 32768

\* C21: after a cycle on the clear-screen instruction every pixel of the
\* display reads off, whatever the display held, PC has advanced by 2, and
\* registers, memory, I, stack and timers are unchanged.
C21_ClearScreen ==
    [][lastOp' = "00e0"
          => (/\ panic' = ""
              /\ \A r \in Rows, c \in 0..63 :
                     LET o == Screen_get_pixel(screen', r, c)
                     IN  o.panic = "" /\ o.ret = FALSE
              /\ pc' = pc + 2
              /\ UNCHANGED <<v, memory, i, stack, sp, delay_timer, sound_timer>>)]_vars

\* the glyph drawn by the instruction before was cleared
C21_Witness ==
    /\ lastOp = "00e0" /\ panic = ""
    /\ InstrAt(prev.pc - 4) = \hA000 /\ InstrAt(prev.pc - 2) = \hD015
    /\ prev.pc = OFFSET + 4 /\ pc = OFFSET + 6
    /\ \A r \in Rows : screen.pixel_buffer[r] = {}

\* the arms that return skip_if(..), and those that return Jump(..)
SkipArms == {"3xkk", "4xkk", "5xy0", "9xy0", "ex9e", "exa1"}
JumpArms == {"00ee", "1nnn", "2nnn", "bnnn", "fx0a"}

\* C23: after a cycle whose handler returned, PC is old PC + 2, old PC + 4
\* (only for the arms that may skip) or the address the handler computed
\* (only for the arms that jump): the handler's own changes are in place
\* and PC has been written once, from the value the handler returned.
C23_PcChangeAppliedOnce ==
    [][(lastOp' \in Handlers /\ panic' = "")
          => CASE lastOp' \in SkipArms -> pc' \in {pc + 2, pc + 4}
               [] lastOp' \in {"1nnn", "2nnn"} -> pc' = OFFSET + NNN
               [] lastOp' = "bnnn" -> pc' = v[0] + NNN
               [] lastOp' = "00ee" -> pc' = stack[sp - 1]
               [] lastOp' = "fx0a" -> pc' \in {pc, pc + 2}
               [] OTHER -> pc' = pc + 2]_vars

\* a jump with a register added took PC to V0 + nnn, away from old PC + 2
C23_Witness ==
    /\ lastOp = "bnnn" /\ panic = ""
    /\ pc = v[0] + nnn_of(InstrAt(prev.pc))
    /\ pc \notin {prev.pc + 2, prev.pc + 4}

\* C26: I stays within 0..0xFFF in every state, and add I,Vx sets I to
\* (I + Vx) mod 4096.
C26_IndexStaysTwelveBit ==
    /\ [](i \in 0..(MemSize - 1))
    /\ [][lastOp' = "fx1e" => i' = (i + v[X]) % MemSize]_vars

\* C27: skip-eq Vx,kk, skip-ne Vx,kk, skip-eq Vx,Vy and skip-ne Vx,Vy add 4
\* to PC exactly when their condition holds and 2 otherwise, and change
\* nothing else.
C27_CompareAndSkip ==
    [][(lastOp' \in {"3xkk", "4xkk", "5xy0", "9xy0"})
          => LET cond == CASE lastOp' = "3xkk" -> v[X] = KK
                           [] lastOp' = "4xkk" -> v[X] # KK
                           [] lastOp' = "5xy0" -> v[X] = v[Y]
                           [] lastOp' = "9xy0" -> v[X] # v[Y]
             IN  /\ panic' = ""
                 /\ pc' = IF cond THEN pc + 4 ELSE pc + 2
                 /\ UNCHANGED <<v, memory, i, stack, sp, delay_timer, sound_timer,
                                screen, keypad>>]_vars

\* skip-ne V0,5 did not skip with V0 = 5
C27_Witness ==
    /\ lastOp = "4xkk" /\ panic = ""
    /\ InstrAt(prev.pc) = \h4005 /\ v[0] = 5
    /\ pc = prev.pc + 2

\* C28: for Vx in 0..15, skip-if-pressed Vx adds 4 to PC exactly when the
\* key whose index is the value of Vx is pressed and 2 otherwise, and
\* skip-if-not-pressed Vx the other way round; while no key has been pressed
\* the first does not skip and the second does.
C28_SkipOnKey ==
    /\ [][(lastOp' = "ex9e" /\ v[X] \in Keys)
             => (/\ panic' = ""
                 /\ pc' = IF is_pressed(keypad, v[X]) THEN pc + 4 ELSE pc + 2
                 /\ keypad.keys = 0 => pc' = pc + 2)]_vars
    /\ [][(lastOp' = "exa1" /\ v[X] \in Keys)
             => (/\ panic' = ""
                 /\ pc' = IF is_pressed(keypad, v[X]) THEN pc + 2 ELSE pc + 4
                 /\ keypad.keys = 0 => pc' = pc + 4)]_vars

\* skip-if-pressed V0 skipped with V0 = 3 and key 3 pressed
C28_Witness ==
    /\ lastOp = "ex9e" /\ panic = ""
    /\ InstrAt(prev.pc) = \hE09E /\ v[0] = 3 /\ keypad.keys = 8
    /\ pc = prev.pc + 4

\* C29: after shr Vx,Vy, Vx = old Vy >> 1 (where Vx is not the flag register
\* itself) and VF = bit 0 of old Vy; after shl Vx,Vy, Vx = (old Vy << 1) mod
\* 256 and VF = bit 7 of old Vy; Vy is unchanged when y differs from x and
\* from 0xF.
C29_ShiftsTakeVy ==
    /\ [][lastOp' = "8xy6"
             => (/\ v'[15] = v[Y] % 2
                 /\ X # 15 => v'[X] = v[Y] \div 2
                 /\ Y \notin {X, 15} => v'[Y] = v[Y])]_vars
    /\ [][lastOp' = "8xye"
             => (/\ v'[15] = (v[Y] \div 128) % 2
                 /\ X # 15 => v'[X] = (v[Y] * 2) % 256
                 /\ Y \notin {X, 15} => v'[Y] = v[Y])]_vars

\* C30: jump nnn sets PC to 0x200 + nnn and jump V0,nnn sets PC to V0 + nnn;
\* neither changes the stack, the stack pointer or a register.
C30_Jumps ==
    /\ [][lastOp' = "1nnn"
             => (panic' = "" /\ pc' = OFFSET + NNN /\ UNCHANGED <<stack, sp, v>>)]_vars
    /\ [][lastOp' = "bnnn"
             => (panic' = "" /\ pc' = v[0] + NNN /\ UNCHANGED <<stack, sp, v>>)]_vars

\* jump V0,0x224 with V0 not zero went to V0 + 0x224
C30_Witness ==
    /\ lastOp = "bnnn" /\ panic = ""
    /\ InstrAt(prev.pc) = \hB224 /\ v[0] > 0
    /\ pc = v[0] + 548

\* C22: get_buffer returns for each row the OR of the current row and the
\* row as it was at the previous read, and leaves the current rows as the
\* retained snapshot; draw_sprite, clear and set_pixel leave the retained
\* snapshot alone, so it always is the rows as of the last read.
C22_ReadReturnsOrOfSnapshot ==
    /\ frame_buffer.prev_buffer = LastRead
    /\ call.op = "FrameBuffer::get_buffer"
           => /\ call.rows = [r \in Rows |-> call.before[r] \cup call.prev_read[r]]
              /\ frame_buffer.buffer = call.before
    /\ call.op \in {"FrameBuffer::draw_sprite", "FrameBuffer::clear", "FrameBuffer::set_pixel"}
           => frame_buffer.prev_buffer = call.snapshot

\* a read of a cleared frame buffer that returns the pixels of the read before
C22_Witness ==
    /\ call.op = "FrameBuffer::get_buffer"
    /\ \A r \in Rows : call.before[r] = {}
    /\ \E r \in Rows : call.prev_read[r] # {}
    /\ call.rows = call.prev_read
    /\ \A r \in Rows : frame_buffer.prev_buffer[r] = {}

\* C25: draw_sprite returns true exactly when some pixel of a row it drew
\* on was lit before the draw and is dark after it.
C25_DrawReportsCollision ==
    (call.op = "FrameBuffer::draw_sprite")
        => (call.ret <=> \E r \in Rows : call.before[r] \ frame_buffer.buffer[r] # {})

\* a draw that put out a pixel in one of its rows and lit pixels in another
C25_Witness ==
    /\ call.op = "FrameBuffer::draw_sprite" /\ call.ret
    /\ Len(call.sprite) = 3
    /\ \E r \in Rows : call.before[r] \ frame_buffer.buffer[r] # {}
    /\ \E r \in Rows : /\ frame_buffer.buffer[r] \ call.before[r] # {}
                        /\ call.before[r] \ frame_buffer.buffer[r] = {}

C31_StoreThenLoad ==
    /\ [][lastOp' = "fx55"
             => (/\ \A a \in 0..(MemSize - 1) :
                        mem_get(memory', a) = IF a \in i..(i + X)
                                              THEN v[a - i]
                                              ELSE mem_get(memory, a)
                 /\ UNCHANGED <<v, i, stack, sp, delay_timer, sound_timer, screen, keypad>>)]_vars
    /\ [][lastOp' = "fx65"
             => (/\ \A r \in Reg :
                        v'[r] = IF r <= X /\ i + r < MemSize
                                THEN mem_get(memory, i + r)
                                ELSE v[r]
                 /\ UNCHANGED <<memory, i, stack, sp, delay_timer, sound_timer, screen,
                                keypad>>)]_vars

\* V0 and V1 were stored as 0x11 and 0x22, overwritten with 0, and loaded
\* back; V3, overwritten with 0x44 after the store, kept that value
C31_Witness ==
    /\ lastOp = "fx65" /\ panic = ""
    /\ InstrAt(prev.pc) = \hF165 /\ InstrAt(prev.pc - 8) = \hF155
    /\ InstrAt(prev.pc - 6) = \h6000 /\ InstrAt(prev.pc - 4) = \h6100
    /\ i = \h300
    /\ mem_get(memory, \h300) = \h11 /\ mem_get(memory, \h301) = \h22
    /\ v[0] = \h11 /\ v[1] = \h22 /\ v[3] = \h44

\* the five bytes of the table of load_font for the hexadecimal digit d
Glyph(d) == SubSeq(font, 5 * d + 1, 5 * d + 5)

C33_TimersOnlyWritten ==
    [][/\ delay_timer' = IF lastOp' = "fx15" /\ panic' = "" THEN v[X] ELSE delay_timer
       /\ sound_timer' = IF lastOp' = "fx18" /\ panic' = "" THEN v[X] ELSE sound_timer
       /\ lastOp' = "fx07" => v'[X] = delay_timer /\ delay_timer' = delay_timer]_vars

\* V1 read back the value that the delay timer was given two cycles before
C33_Witness ==
    /\ lastOp = "fx07" /\ panic = ""
    /\ InstrAt(prev.pc - 4) = \hF015 /\ InstrAt(prev.pc - 2) = \hF018
    /\ InstrAt(prev.pc) = \hF107
    /\ delay_timer > 0
    /\ v[1] = delay_timer /\ v[0] = delay_timer /\ sound_timer = v[0]

\* C34: with wrap_x disabled, a sprite drawn at a column c in 0..255 changes
\* only pixels in the columns c..c+7 that lie inside 0..63, so a sprite
\* drawn at a column c >= 64 changes no pixel.
C34_ClippedAtRightEdge ==
    (call.op = "FrameBuffer::draw_sprite" /\ ~frame_buffer.wrap_x)
        => \A r \in Rows, c \in 0..63 :
               Lit(frame_buffer.buffer[r], c) # Lit(call.before[r], c)
                   => c \in call.col..(call.col + 7)

\* C35: the display changes only in a cycle on clear-screen or on draw, and
\* the keypad changes only in set_pressed: no cycle, whatever its
\* instruction and however it ends, and no load changes the keypad.
C35_DisplayAndKeypadOwners ==
    /\ [][screen' # screen => lastOp' \in {"00e0", "dxyn"}]_vars
    /\ [][keypad' # keypad => lastOp' = "set_pressed"]_vars

\* the glyph drawn two cycles before is still on the display and the key
\* that wait-for-key read is still pressed when skip-if-pressed asks for it
C35_Witness ==
    /\ lastOp = "ex9e" /\ panic = ""
    /\ InstrAt(prev.pc - 4) = \hD015 /\ InstrAt(prev.pc - 2) = \hF20A
    /\ \A r \in 1..5 : screen.pixel_buffer[r] # {}
    /\ keypad.keys # 0
    /\ is_pressed(keypad, v[2])
    /\ pc = prev.pc + 4

\* C36: a cycle that ends in a fatal error has modified no part of the
\* machine state: memory, registers, I, PC, stack, stack pointer and display
\* are as they were before the cycle.
C36_FatalCycleChangesNothing ==
    [][(panic = "" /\ panic' # "" /\ lastOp' \notin {"load", "set_pressed"})
          => UNCHANGED <<memory, v, i, pc, stack, sp, screen>>]_vars

\* C37: in every state reached by executing instructions of a loaded
\* program, PC and PC + 1 address cells of the 4096-byte memory (PC <= 0xFFE),
\* after every jump, call, return, skip and advance.
C37_PcInsideMemory ==
    loaded => pc + 1 < MemSize

\* exactly one of the 16 keys is pressed
OneKey ==
    /\ Cardinality({j \in Keys : is_pressed(keypad, j)}) = 1
    /\ keypad.keys \in {2 ^ j : j \in Keys}

\* C38: the keypad has no release: a set_pressed with a key in 0..15 leaves
\* exactly one key pressed, and from a state with exactly one key pressed
\* every operation (a set_pressed with any argument, an is_pressed) leads to
\* a state with exactly one key pressed, never to the state with none.
C38_NoRelease ==
    [][/\ (call'.op = "Keypad::set_pressed" /\ call'.k \in Keys /\ panic' = "") => OneKey'
       /\ OneKey => OneKey' /\ keypad'.keys # 0]_vars

\* key 7 was pressed, then is_pressed asked about key 3: key 7 is still the
\* one key pressed
C38_Witness ==
    /\ call.op = "Keypad::is_pressed" /\ panic = ""
    /\ call.set = 7 /\ call.k = 3 /\ ~call.ret
    /\ OneKey /\ keypad.keys = 128

\* C39: a call stores the PC of the call instruction in the slot at the old
\* stack pointer and then increments the pointer; after n <= 16 calls at
\* PCs p1..pn with no return in between, the next n returns pop pn, ..., p1
\* in that order, and the last of them brings the stack pointer back to
\* what it was before the first call.
C39_ReturnsPopInOrder ==
    /\ [][(lastOp' = "2nnn" /\ panic' = "")
             => (stack' = [stack EXCEPT ![sp] = pc] /\ sp' = sp + 1)]_vars
    /\ [][(lastOp' = "00ee" /\ panic' = "" /\ Expect # << >>)
             => (/\ stack[sp - 1] = Head(Expect)
                 /\ Len(Expect) = 1 => sp' = call.base)]_vars

====
